---- MODULE Spec2Model ----
(***************************************************************************)
(* Dynamic-Form-Builder: the AI service (src/services/aiService.js) and    *)
(* the response controller (src/unnamed/part_000) as state machines.       *)
(*                                                                         *)
(*   reply : the text-generation backend's answer to the chain.invoke of   *)
(*           the run (a transport failure, or a text)                      *)
(*   store : the Response collection, the documents of one form            *)
(*   form  : the Form document the requests are about                      *)
(*   reqs  : the requests that write to the collection (submitResponse,    *)
(*           deleteResponse), each with its position                       *)
(*   call  : the call on the service or the analytics request observed:    *)
(*           its operation, inputs, position while in flight, and outcome  *)
(*   clock : the latest reading of the wall clock                          *)
(***************************************************************************)
EXTENDS Integers, Sequences, FiniteSets, TLC

VARIABLES reply, store, form, reqs, call, clock

vars == <<reply, store, form, reqs, call, clock>>

(***************************************************************************)
(* Bounds of the model.                                                    *)
(***************************************************************************)
MaxElems == 2
MaxClock == 2
MaxIndexKey == 12
MaxWrites == 1

(***************************************************************************)
(* JavaScript values and helpers.                                          *)
(***************************************************************************)
\* {...r, k: v}
Ext(r, k, v) == [f \in DOMAIN r \cup {k} |-> IF f = k THEN v ELSE r[f]]

SeqsUpTo(S, n) == UNION {[1..k -> S] : k \in 0..n}

Return(v) == [kind |-> "return", value |-> v]
Throw(m) == [kind |-> "throw", message |-> m]

NoCall == [op |-> "none"]

(***************************************************************************)
(* The model backend's output.  A text is its JSON body (syntax "json"), a *)
(* body spoilt by a trailing comma, or prose; it may be wrapped in leading *)
(* and trailing code-fence markers.                                        *)
(***************************************************************************)
BareElements == [type : {"text", "bogus"}, label : {"Name"}]
SuppliedIds == {"", "a", "field_1_1"}
Elements == BareElements \cup {Ext(e, "id", s) : e \in BareElements, s \in SuppliedIds}

FormSettings == [submitButtonText |-> "Submit", successMessage |-> "Thank you for your submission"]
FormBase == [description |-> "d", settings |-> FormSettings]
FormValues ==
    LET untitled == {FormBase} \cup {Ext(FormBase, "elements", es) : es \in SeqsUpTo(Elements, MaxElems)}
    IN  untitled \cup {Ext(f, "title", "T") : f \in untitled}

AnalysisValues ==
    { [sentiment |-> "positive", keywords |-> <<"k">>, summary |-> "s", flags |-> <<>>],
      [sentiment |-> "angry", keywords |-> <<"k">>, summary |-> "s", flags |-> <<>>],
      [sentiment |-> "negative", summary |-> "s"] }

InsightValues ==
    { [overallTrends |-> "t", recommendations |-> <<"r">>, patterns |-> <<>>, improvementSuggestions |-> <<>>],
      [overallTrends |-> "t", recommendations |-> <<"r">>] }

JsonValues == FormValues \cup AnalysisValues \cup InsightValues

Texts ==
    [fenced : BOOLEAN, syntax : {"json", "trailing_comma"}, value : JsonValues]
      \cup [fenced : BOOLEAN, syntax : {"prose"}, value : {FormBase}]

Replies == {[ok |-> FALSE]} \cup [ok : {TRUE}, text : Texts]

\* JSON.parse(result): the whole text must be one JSON value
JSONparse(text) ==
    IF text.syntax = "json" /\ ~text.fenced
    THEN [ok |-> TRUE, value |-> text.value]
    ELSE [ok |-> FALSE]

(***************************************************************************)
(* generateForm                                                            *)
(***************************************************************************)
\* the readings of Date.now() over one pass of n elements, not before `from`
ClockReadings(n, from) ==
    {ts \in [1..n -> from..MaxClock] : \A i \in 1..n : \A j \in i..n : ts[i] <= ts[j]}

\* element.id, undefined when the element has none
HasId(e) == "id" \in DOMAIN e /\ e.id # ""

\* `field_${Date.now()}_${index}`
FieldId(t, index) == "field_" \o ToString(t) \o "_" \o ToString(index)

AssignIdsAlways(elements, times) ==
    [i \in 1..Len(elements) |-> Ext(elements[i], "id", FieldId(times[i], i - 1))]

\* parsedResult.elements.map((element, index) => ({...element, id: element.id || ...}))
AssignIds(elements, times) ==
    [i \in 1..Len(elements) |->
        Ext(elements[i], "id",
            IF HasId(elements[i]) THEN elements[i].id ELSE FieldId(times[i], i - 1))]

GenerationFailed == Throw("Failed to generate form with AI")

\* the elements generateForm maps over, <<>> when it throws before the map
ParsedElements(rep) ==
    IF rep.ok /\ JSONparse(rep.text).ok /\ "elements" \in DOMAIN JSONparse(rep.text).value
    THEN JSONparse(rep.text).value.elements
    ELSE <<>>

generateForm(rep, times) ==
    IF ~rep.ok THEN GenerationFailed
    ELSE LET p == JSONparse(rep.text) IN
         IF ~p.ok THEN GenerationFailed
         ELSE IF "elements" \notin DOMAIN p.value THEN GenerationFailed
         ELSE Return([p.value EXCEPT !.elements = AssignIds(p.value.elements, times)])

(***************************************************************************)
(* Documents.  A response value is a JavaScript value (Mixed); a number is *)
(* an exact rational [num, den] in lowest terms.                           *)
(***************************************************************************)
Undefined == [t |-> "undefined"]
Null == [t |-> "null"]
Str(s) == [t |-> "string", s |-> s]
Num(n) == [t |-> "number", n |-> n]
Bool(b) == [t |-> "boolean", b |-> b]
Arr(len) == [t |-> "array", len |-> len]
Obj(size) == [t |-> "object", size |-> size]

\* ToBoolean(v)
Truthy(v) ==
    CASE v.t = "undefined" -> FALSE
      [] v.t = "null" -> FALSE
      [] v.t = "string" -> v.s # ""
      [] v.t = "number" -> v.n # 0
      [] v.t = "boolean" -> v.b
      [] OTHER -> TRUE

RECURSIVE GCD(_, _)
GCD(a, b) == IF b = 0 THEN a ELSE GCD(b, a % b)

\* n / d for n >= 0, d > 0
Rat(n, d) == [num |-> n \div GCD(n, d), den |-> d \div GCD(n, d)]

\* .limit(n)
Limit(s, n) == IF Len(s) <= n THEN s ELSE SubSeq(s, 1, n)

FormElements ==
    << [id |-> "f1", type |-> "text", label |-> "Name"],
       [id |-> "f2", type |-> "email", label |-> "Email"] >>

\* a Form document as Form.findById gives it: the paths FormSchema declares
\* (settings.access among them; settings.enableAiAnalysis is not one).
\* expirationDate 0 and maxResponses 0 stand for unset.
FormDoc(status, access) ==
    [title |-> "T", elements |-> FormElements, status |-> status,
     settings |-> [successMessage |-> "Form submitted successfully", access |-> access]]

Access(requireLogin, maxResponses, expirationDate) ==
    [requireLogin |-> requireLogin, maxResponses |-> maxResponses,
     expirationDate |-> expirationDate]

OpenAccess == Access(FALSE, 0, 0)

ResponseDoc(responses, status, metadata) ==
    [responses |-> responses, status |-> status, metadata |-> metadata]

(***************************************************************************)
(* analyzeResponse                                                         *)
(***************************************************************************)
NeutralAnalysis ==
    [sentiment |-> "neutral", keywords |-> <<>>, summary |-> "Unable to analyze response", flags |-> <<>>]

\* form.elements.find(el => el.id === resp.elementId), then its label or the elementId
FieldLabel(frm, elementId) ==
    LET hits == {i \in 1..Len(frm.elements) : frm.elements[i].id = elementId}
    IN  IF hits = {} THEN elementId
        ELSE frm.elements[CHOOSE i \in hits : \A j \in hits : i <= j].label

responseData(response, frm) ==
    [i \in 1..Len(response.responses) |->
        [field |-> FieldLabel(frm, response.responses[i].elementId),
         value |-> response.responses[i].value]]

analyzeResponse(rep) ==
    IF ~rep.ok THEN Return(NeutralAnalysis)
    ELSE LET p == JSONparse(rep.text) IN
         IF ~p.ok THEN Return(NeutralAnalysis)
         ELSE Return(p.value)

(***************************************************************************)
(* generateInsights                                                        *)
(***************************************************************************)
InsightsLimit == 100

NoResponsesInsights ==
    [overallTrends |-> "No responses available for analysis",
     recommendations |-> <<>>, patterns |-> <<>>, improvementSuggestions |-> <<>>]

FallbackInsights ==
    [overallTrends |-> "Unable to generate insights at this time",
     recommendations |-> <<>>, patterns |-> <<>>, improvementSuggestions |-> <<>>]

IsComplete(r) == r.status = "complete"

\* responses.filter(r => r.status === 'complete').length
CompleteCount(s) == Cardinality({i \in 1..Len(s) : IsComplete(s[i])})

\* r.metadata?.timeSpent || 0
TimeSpentOrZero(r) == IF "timeSpent" \in DOMAIN r.metadata THEN r.metadata.timeSpent ELSE 0

\* responses.reduce((acc, r) => acc + (r.metadata?.timeSpent || 0), 0)
RECURSIVE SumTimeSpent(_)
SumTimeSpent(s) == IF s = <<>> THEN 0 ELSE SumTimeSpent(SubSeq(s, 1, Len(s) - 1)) + TimeSpentOrZero(s[Len(s)])

responseSummary(responses) ==
    [totalResponses |-> Len(responses),
     completionRate |-> Rat(CompleteCount(responses), Len(responses)),
     averageTime |-> Rat(SumTimeSpent(responses), Len(responses)),
     topKeywords |-> <<>>]

formInfo(frm) ==
    [title |-> frm.title,
     elementCount |-> Len(frm.elements),
     elementTypes |-> {frm.elements[i].type : i \in 1..Len(frm.elements)}]

\* the summary the insights prompt is rendered from, when the call gets that far
InsightsSummary(queryOk, docs) ==
    LET responses == Limit(docs, InsightsLimit)
    IN  IF queryOk /\ Len(responses) > 0
        THEN [built |-> TRUE, summary |-> responseSummary(responses)]
        ELSE [built |-> FALSE]

generateInsightsPropagating(queryOk, docs, rep) ==
    IF ~queryOk \/ (Len(docs) > 0 /\ (~rep.ok \/ ~JSONparse(rep.text).ok))
    THEN Throw("insights")
    ELSE IF Len(docs) = 0 THEN Return(NoResponsesInsights)
    ELSE Return(JSONparse(rep.text).value)

generateInsights(queryOk, docs, rep) ==
    IF ~queryOk THEN Return(FallbackInsights)
    ELSE LET responses == Limit(docs, InsightsLimit) IN
         IF Len(responses) = 0 THEN Return(NoResponsesInsights)
         ELSE IF ~rep.ok THEN Return(FallbackInsights)
         ELSE LET p == JSONparse(rep.text) IN
              IF ~p.ok THEN Return(FallbackInsights)
              ELSE Return(p.value)

(***************************************************************************)
(* The calls on the AI service whose result is a function of the model     *)
(* backend's output.                                                       *)
(***************************************************************************)
SampleResponse ==
    ResponseDoc(<< [elementId |-> "f1", value |-> Str("Ann")],
                   [elementId |-> "zz", value |-> Undefined] >>,
                "complete", [device |-> "mobile", timeSpent |-> 10])

(***************************************************************************)
(* The wall clock, and the requests that write to the collection while a   *)
(* call is in flight.  Time is counted in half days.                       *)
(***************************************************************************)
Clocks == {101, 102}

\* a reading of the clock, not before the last one
ReadClock(t) == {u \in Clocks : u >= t}

StoredDoc(status, metadata, createdAt) ==
    [responses |-> <<[elementId |-> "f1", value |-> Str("x")]>>,
     status |-> status, metadata |-> metadata, createdAt |-> createdAt]

Pending == [kind |-> "pending"]

\* the observed call is between two of its awaits
InFlight == "pc" \in DOMAIN call /\ call.pc # "done"

\* the observed call, after a write to the collection: quiet tells whether
\* the collection is still as it was when the call began
Disturbed == IF "quiet" \in DOMAIN call THEN [call EXCEPT !.quiet = FALSE] ELSE call

\* a request beside the call: pc is "new", then for a submitResponse "create"
\* (Response.create called, its insert not yet applied), then "done"; stamp and
\* metadata are those of the document it is creating
NewWriter == [op |-> "none", pc |-> "new", stamp |-> 0, metadata |-> [device |-> "mobile"]]

Writers == 1..MaxWrites

RemoveAt(s, i) == SubSeq(s, 1, i - 1) \o SubSeq(s, i + 1, Len(s))

\* a submitResponse request beside the call reaches Response.create: the
\* document is built and, by timestamps: true, stamped with the clock as read
\* now, before the insert is sent
CallCreate(w) ==
    /\ reqs[w].pc = "new"
    /\ \E metadata \in {[device |-> "mobile"], [device |-> "mobile", timeSpent |-> 10]} :
       \E now \in ReadClock(clock) :
          /\ reqs' = [reqs EXCEPT ![w] = [op |-> "submitResponse", pc |-> "create",
                                          stamp |-> now, metadata |-> metadata]]
          /\ clock' = now
    /\ UNCHANGED <<reply, store, form, call>>

\* the insert of that Response.create is applied: the record is in the
\* collection from here on, with the createdAt it was stamped with
StoreResponse(w) ==
    /\ reqs[w].pc = "create"
    /\ store' = Append(store, StoredDoc("complete", reqs[w].metadata, reqs[w].stamp))
    /\ reqs' = [reqs EXCEPT ![w].pc = "done"]
    /\ call' = Disturbed
    /\ UNCHANGED <<reply, form, clock>>

\* the response.remove() of a deleteResponse request running beside the call
RemoveResponse(w) ==
    /\ reqs[w].pc = "new"
    /\ \E i \in 1..Len(store) : store' = RemoveAt(store, i)
    /\ reqs' = [reqs EXCEPT ![w] = [@ EXCEPT !.op = "deleteResponse", !.pc = "done"]]
    /\ call' = Disturbed
    /\ UNCHANGED <<reply, form, clock>>

\* generateInsights up to its first await's answer: the responses are loaded,
\* and either the call ends here or the summary is built and the model asked
InsightsFind ==
    /\ ~InFlight
    /\ \E queryOk \in BOOLEAN :
          LET responses == IF queryOk THEN Limit(store, InsightsLimit) ELSE <<>>
              asks == queryOk /\ responses # <<>>
          IN  call' = [op |-> "generateInsights", quiet |-> TRUE, queryOk |-> queryOk,
                       responses |-> responses,
                       prompt |-> InsightsSummary(queryOk, store),
                       pc |-> IF asks THEN "invoke" ELSE "done",
                       out |-> IF asks THEN Pending
                               ELSE generateInsights(queryOk, responses, reply)]
    /\ UNCHANGED <<reply, store, form, reqs, clock>>

\* the answer of chain.invoke, JSON.parse and the return
InsightsInvoke ==
    /\ call.op = "generateInsights"
    /\ call.pc = "invoke"
    /\ call' = [call EXCEPT !.pc = "done",
                            !.out = generateInsights(call.queryOk, call.responses, reply)]
    /\ UNCHANGED <<reply, store, form, reqs, clock>>

InitGen ==
    /\ reply \in Replies
    /\ store \in {<<>>, <<SampleResponse>>}
    /\ form = FormDoc("published", OpenAccess)
    /\ reqs = [w \in Writers |-> NewWriter]
    /\ call = NoCall
    /\ clock = 101

GenerateForm ==
    /\ ~InFlight
    /\ \E times \in ClockReadings(Len(ParsedElements(reply)), 1) :
          call' = [op |-> "generateForm", times |-> times, out |-> generateForm(reply, times)]
    /\ UNCHANGED <<reply, store, form, reqs, clock>>

\* the ID-assignment step of generateForm run again, at a later clock, on the
\* elements a generateForm call returned
ReassignIds ==
    /\ call.op = "generateForm"
    /\ call.out.kind = "return"
    /\ LET before == call.out.value.elements
           from == IF Len(call.times) = 0 THEN 1 ELSE call.times[Len(call.times)]
       IN  \E times \in ClockReadings(Len(before), from) :
              call' = [op |-> "assignIds", before |-> before, times |-> times,
                       out |-> AssignIds(before, times)]
    /\ UNCHANGED <<reply, store, form, reqs, clock>>

AnalyzeResponse ==
    /\ ~InFlight
    /\ store # <<>>
    /\ call' = [op |-> "analyzeResponse",
                responseData |-> responseData(store[1], form),
                out |-> analyzeResponse(reply)]
    /\ UNCHANGED <<reply, store, form, reqs, clock>>

NextGen ==
    \/ GenerateForm
    \/ ReassignIds
    \/ AnalyzeResponse
    \/ InsightsFind
    \/ InsightsInvoke
    \/ \E w \in Writers : CallCreate(w) \/ StoreResponse(w) \/ RemoveResponse(w)

SpecGen == InitGen /\ [][NextGen]_vars

(***************************************************************************)
(* optimizeForm                                                            *)
(***************************************************************************)
OptimizeLimit == 50
MinResponses == 10

InsufficientData ==
    [message |-> "Need more responses (at least 10) to provide optimization suggestions",
     suggestions |-> <<>>]

OptimizationFailed == Throw("Failed to optimize form")

TooFewOrTen(n) == n <= MinResponses

\* responses.length < 10
TooFew(n) == n < MinResponses

\* resp.value && resp.value !== ''
Filled(v) == Truthy(v) /\ v # Str("")

\* the visits of the nested forEach: <<i, j>> is pair j of response i
Visits(responses) ==
    UNION { {<<i, j>> : j \in 1..Len(responses[i].responses)} : i \in 1..Len(responses) }

\* visit v comes before visit w
VisitedBefore(v, w) == v[1] < w[1] \/ (v[1] = w[1] /\ v[2] < w[2])

\* the properties every object literal inherits from Object.prototype:
\* fieldAnalysis[k] is truthy for them before anything is stored under k
ObjectPrototypeKeys ==
    {"constructor", "__proto__", "toString", "toLocaleString", "valueOf", "hasOwnProperty",
     "isPrototypeOf", "propertyIsEnumerable", "__defineGetter__", "__defineSetter__",
     "__lookupGetter__", "__lookupSetter__"}

\* the property names that are array indices ("0", "1", ...): Object.entries
\* lists them first, in ascending numeric order.  The names of the elements
\* used stay below MaxIndexKey.
IsIndexKey(id) == \E n \in 0..MaxIndexKey : ToString(n) = id

IndexOfKey(id) == CHOOSE n \in 0..MaxIndexKey : ToString(n) = id

\* fieldAnalysis after responses.forEach(response => response.responses.forEach(...)):
\* an entry is created at the first visit of an elementId for which
\* fieldAnalysis[elementId] is falsy, so never for an inherited property (the
\* increments then land on the inherited object); stats[id] holds total, the
\* visits that incremented it (every visit of id), and filled, those among them
\* whose value passed the test; keys lists the own keys in the order of
\* Object.entries: the array indices ascending, then the others as created
Tally(responses) ==
    LET visits == Visits(responses)
        resp(v) == responses[v[1]].responses[v[2]]
        ids == {resp(v).elementId : v \in visits} \ ObjectPrototypeKeys
        of(id) == {v \in visits : resp(v).elementId = id}
        first(id) == CHOOSE v \in of(id) : \A w \in of(id) : ~VisitedBefore(w, v)
        listedBefore(a, b) ==
            IF IsIndexKey(a) /\ IsIndexKey(b) THEN IndexOfKey(a) < IndexOfKey(b)
            ELSE IF IsIndexKey(a) # IsIndexKey(b) THEN IsIndexKey(a)
            ELSE VisitedBefore(first(a), first(b))
        earlier(id) == {other \in ids : listedBefore(other, id)}
    IN  [keys |-> [n \in 1..Cardinality(ids) |->
                      CHOOSE id \in ids : Cardinality(earlier(id)) = n - 1],
         stats |-> [id \in ids |->
                      [total |-> Cardinality(of(id)),
                       filled |-> Cardinality({v \in of(id) : Filled(resp(v).value)}),
                       errors |-> 0]]]

\* fillRate < 0.5, with fillRate = stats.filled / stats.total
LowCompletion(stats) == 2 * stats.filled < stats.total

\* The numerators a of the fractions a/40 and a/200 in lowest terms, a up to
\* four times the denominator, for which the double (a / d) * 100 falls just
\* below its exact value k + 1/2 (29 / 200 * 100 is 14.499999999999998).
\* With any other fraction the double rounds as the exact value does.
BelowHalfOver40 == {23, 41, 51, 87, 97}
BelowHalfOver200 == {29, 57, 113, 201, 203, 207, 251, 253, 427, 431, 439, 477, 481, 489}

\* Math.round(fillRate * 100) in double arithmetic (stats.filled up to 4 * stats.total)
RoundedPercent(stats) ==
    LET g == GCD(stats.filled, stats.total)
        a == stats.filled \div g
        d == stats.total \div g
        halfUp == (200 * stats.filled + stats.total) \div (2 * stats.total)
    IN  IF (d = 40 /\ a \in BelowHalfOver40) \/ (d = 200 /\ a \in BelowHalfOver200)
        THEN halfUp - 1
        ELSE halfUp

SuggestionText(fieldId, percent) ==
    "Field " \o fieldId \o " has low completion rate (" \o ToString(percent)
        \o "%) - consider making it optional or improving the label"

\* Object.entries(fieldAnalysis).forEach: a suggestion per low field, in key order
RECURSIVE Suggestions(_, _)
Suggestions(keys, stats) ==
    IF keys = <<>> THEN <<>>
    ELSE LET rest == Suggestions(SubSeq(keys, 1, Len(keys) - 1), stats)
             fieldId == keys[Len(keys)]
         IN  IF LowCompletion(stats[fieldId])
             THEN Append(rest, SuggestionText(fieldId, RoundedPercent(stats[fieldId])))
             ELSE rest

optimizeForm(queryOk, docs) ==
    IF ~queryOk THEN OptimizationFailed
    ELSE LET responses == Limit(docs, OptimizeLimit) IN
         IF TooFew(Len(responses)) THEN Return(InsufficientData)
         ELSE LET t == Tally(responses)
              IN  Return([message |-> "Form optimization analysis completed",
                          suggestions |-> Suggestions(t.keys, t.stats),
                          fieldAnalysis |-> t.stats])

(***************************************************************************)
(* optimizeForm over the stored responses of a form: the collection holds  *)
(* two runs of equal documents, or enough documents to pass the limit.     *)
(***************************************************************************)
MaxRun == 6

ResponseValues ==
    {Undefined, Null, Str(""), Str("x"), Arr(0), Arr(1), Obj(0), Obj(1),
     Num(0), Num(7), Bool(FALSE), Bool(TRUE)}

\* four answers under f1, the first with value v
FourAnswers(v) ==
    << [elementId |-> "f1", value |-> v], [elementId |-> "f1", value |-> Str("")],
       [elementId |-> "f1", value |-> Str("")], [elementId |-> "f1", value |-> Str("")] >>

Answers ==
    {<<>>} \cup {<<[elementId |-> "f1", value |-> v]>> : v \in ResponseValues}
      \cup { << [elementId |-> "f1", value |-> Str("x")], [elementId |-> "f2", value |-> Str("")] >>,
             << [elementId |-> "f1", value |-> Str("x")], [elementId |-> "f1", value |-> Str("")] >>,
             << [elementId |-> "f1", value |-> Str("x")], [elementId |-> "constructor", value |-> Str("")] >>,
             << [elementId |-> "b", value |-> Str("")], [elementId |-> "10", value |-> Str("")],
                [elementId |-> "9", value |-> Str("x")] >>,
             FourAnswers(Str("x")), FourAnswers(Str("")) }

OptDocs == {ResponseDoc(a, "complete", [device |-> "mobile"]) : a \in Answers}

Repeat(d, n) == [i \in 1..n |-> d]

OptStores ==
    {Repeat(a, n) \o Repeat(b, m) : a \in OptDocs, b \in OptDocs, n \in 0..MaxRun, m \in 0..MaxRun}
      \cup {Repeat(a, OptimizeLimit - 1 + n) \o <<b>> : a \in OptDocs, b \in OptDocs, n \in 0..1}
      \cup {Repeat(a, 29) \o Repeat(b, OptimizeLimit - 29) : a \in OptDocs, b \in OptDocs}

InitOpt ==
    /\ reply = [ok |-> FALSE]
    /\ store \in OptStores
    /\ form = FormDoc("published", OpenAccess)
    /\ reqs = <<>>
    /\ call = NoCall
    /\ clock = 101

OptimizeForm ==
    /\ \E queryOk \in BOOLEAN :
          call' = [op |-> "optimizeForm", queryOk |-> queryOk, out |-> optimizeForm(queryOk, store)]
    /\ UNCHANGED <<reply, store, form, reqs, clock>>

NextOpt == OptimizeForm

SpecOpt == InitOpt /\ [][NextOpt]_vars

(***************************************************************************)
(* getResponseAnalytics.  Time is counted in half days: createdAt and the  *)
(* clock are half-day numbers, and the UTC calendar day of t is            *)
(* t \div HalfDaysPerDay.                                                   *)
(***************************************************************************)
HalfDaysPerDay == 2
WindowDays == 30

Answer(status, body) == [status |-> status, body |-> body]

\* the number of the UTC calendar day that holds the instant t
DayOf(t) == t \div HalfDaysPerDay

\* { year: { $year }, month: { $month }, day: { $dayOfMonth } } of the instant t,
\* with day number 0 falling on 1 December 2023 (the instants used lie in
\* December 2023 and January 2024)
YearMonthDay(t) ==
    IF DayOf(t) < 31
    THEN [year |-> 2023, month |-> 12, day |-> DayOf(t) + 1]
    ELSE [year |-> 2024, month |-> 1, day |-> DayOf(t) - 30]

\* thirtyDaysAgo.setDate(thirtyDaysAgo.getDate() - 30): same time of day, 30 days back
thirtyDaysAgo(now) == now - WindowDays * HalfDaysPerDay

SortsBeforeByDayOfMonth(a, b) ==
    \/ a.day < b.day
    \/ a.day = b.day /\ a.year < b.year
    \/ a.day = b.day /\ a.year = b.year /\ a.month < b.month

\* $sort: { '_id.year': 1, '_id.month': 1, '_id.day': 1 }
SortsBefore(a, b) ==
    \/ a.year < b.year
    \/ a.year = b.year /\ a.month < b.month
    \/ a.year = b.year /\ a.month = b.month /\ a.day < b.day

\* $match createdAt >= thirtyDaysAgo, $group by calendar day with $sum 1, $sort ascending
responsesOverTime(docs, now) ==
    LET recent == {i \in 1..Len(docs) : docs[i].createdAt >= thirtyDaysAgo(now)}
        days == {YearMonthDay(docs[i].createdAt) : i \in recent}
        nth(n) == CHOOSE d \in days : Cardinality({e \in days : SortsBefore(e, d)}) = n - 1
    IN  [n \in 1..Cardinality(days) |->
            [_id |-> nth(n),
             count |-> Cardinality({i \in recent : YearMonthDay(docs[i].createdAt) = nth(n)})]]

\* 'metadata.timeSpent': { $exists: true, $ne: null }
HasTimeSpent(r) == "timeSpent" \in DOMAIN r.metadata

\* $group _id null with $avg of metadata.timeSpent: no group when nothing matches
avgCompletionTime(docs) ==
    LET matched == SelectSeq(docs, HasTimeSpent)
    IN  IF matched = <<>> THEN <<>>
        ELSE <<[_id |-> Null, avgTime |-> Rat(SumTimeSpent(matched), Len(matched))]>>

\* avgCompletionTime[0]?.avgTime || 0
averageCompletionTime(avg) == IF avg = <<>> THEN Rat(0, 1) ELSE avg[1].avgTime

\* the $group by metadata.device with $sum 1
DeviceGroups(docs) ==
    {[_id |-> d, count |-> Cardinality({i \in 1..Len(docs) : docs[i].metadata.device = d})] :
        d \in {docs[i].metadata.device : i \in 1..Len(docs)}}

\* $sort { count: -1 }: any order of the groups with the counts descending
DeviceStatsOrders(docs) ==
    LET groups == DeviceGroups(docs)
    IN  {ds \in [1..Cardinality(groups) -> groups] :
            /\ \A i, j \in 1..Cardinality(groups) : i < j => ds[i] # ds[j]
            /\ \A i, j \in 1..Cardinality(groups) : i < j => ds[i].count >= ds[j].count}

\* totalResponses > 0 ? (completeResponses / totalResponses) * 100 : 0
CompletionRate(completeResponses, totalResponses) ==
    IF totalResponses > 0 THEN Rat(completeResponses * 100, totalResponses) ELSE Rat(0, 1)

\* let aiInsights = null; if (totalResponses > 0) try { aiInsights = await generateInsights } catch {}
aiInsights(totalResponses, insights) ==
    IF totalResponses > 0 /\ insights.kind = "return" THEN insights.value ELSE Null

\* res.json({...}) over what the request read
getResponseAnalytics(c, insights) ==
    Answer(200,
           [totalResponses |-> c.total,
            completeResponses |-> c.complete,
            completionRate |-> CompletionRate(c.complete, c.total),
            responsesOverTime |-> c.overTime,
            averageCompletionTime |-> averageCompletionTime(c.avg),
            deviceStats |-> c.device,
            aiInsights |-> aiInsights(c.total, insights)])

\* the catch of getResponseAnalytics
AnalyticsFailed(c) == [c EXCEPT !.pc = "done", !.out = Answer(500, [message |-> "error.message"])]

(***************************************************************************)
(* The analytics of a form over its stored responses.  The collection      *)
(* starts with up to MaxStored documents in the order of their creation.   *)
(* A getResponseAnalytics request runs from one await to the next, and the *)
(* writes of other requests may fall between two of its reads; call holds  *)
(*   pc        : the await it is at: "countTotal", "countComplete",        *)
(*               "overTime", "avgTime", "devices", "insightsFind",         *)
(*               "invoke", then "done" (answered)                          *)
(*   quiet     : whether the collection is as it was when the request began*)
(*   now       : the clock read for thirtyDaysAgo                          *)
(*   total, complete, overTime, avg, device : what its reads returned      *)
(*   seen      : the collection as the responsesOverTime aggregate read it *)
(*   queryOk, responses, prompt : the Response.find of generateInsights,   *)
(*               what it loaded and the summary built from it              *)
(*   out       : the answer                                                *)
(***************************************************************************)
MaxStored == 3

AnalyticsDocs ==
    { StoredDoc("complete", [device |-> "desktop", timeSpent |-> 0], 39),
      StoredDoc("invalid", [device |-> "mobile"], 41),
      StoredDoc("partial", [device |-> "desktop", timeSpent |-> 10], 42),
      StoredDoc("complete", [device |-> "mobile", timeSpent |-> 20], 99),
      StoredDoc("complete", [device |-> "mobile", timeSpent |-> 10], 100),
      StoredDoc("partial", [device |-> "desktop"], 101) }

AnalyticsStores ==
    {docs \in SeqsUpTo(AnalyticsDocs, MaxStored) :
        \A i, j \in 1..Len(docs) : i < j => docs[i].createdAt <= docs[j].createdAt}

InsightReplies ==
    { [ok |-> FALSE],
      [ok |-> TRUE, text |-> [fenced |-> FALSE, syntax |-> "prose", value |-> FormBase]],
      [ok |-> TRUE, text |-> [fenced |-> FALSE, syntax |-> "json",
          value |-> [overallTrends |-> "t", recommendations |-> <<"r">>,
                     patterns |-> <<>>, improvementSuggestions |-> <<>>]]] }

NewAnalytics ==
    [op |-> "getResponseAnalytics", pc |-> "countTotal", quiet |-> TRUE, now |-> 0,
     total |-> 0, complete |-> 0, overTime |-> <<>>, avg |-> <<>>, device |-> <<>>,
     seen |-> <<>>, queryOk |-> TRUE, responses |-> <<>>, prompt |-> [built |-> FALSE],
     out |-> Answer(0, Null)]

At(pc) == call.op = "getResponseAnalytics" /\ call.pc = pc

InitAnalytics ==
    /\ reply \in InsightReplies
    /\ store \in AnalyticsStores
    /\ form = FormDoc("published", OpenAccess)
    /\ reqs = [w \in Writers |-> NewWriter]
    /\ call = NoCall
    /\ clock = 101

\* const form = await Form.findById(formId), and the two checks
AnalyticsFindForm ==
    /\ ~InFlight
    /\ call.op = "none"
    /\ \E dbOk, formFound, isOwner \in BOOLEAN :
          call' = IF ~dbOk THEN AnalyticsFailed(NewAnalytics)
                  ELSE IF ~formFound
                  THEN [NewAnalytics EXCEPT !.pc = "done",
                           !.out = Answer(404, [message |-> "Form not found"])]
                  ELSE IF ~isOwner
                  THEN [NewAnalytics EXCEPT !.pc = "done",
                           !.out = Answer(403, [message |-> "Not authorized to view analytics"])]
                  ELSE NewAnalytics
    /\ UNCHANGED <<reply, store, form, reqs, clock>>

\* const totalResponses = await Response.countDocuments({ form: formId })
CountTotal ==
    /\ At("countTotal")
    /\ \E dbOk \in BOOLEAN :
          call' = IF ~dbOk THEN AnalyticsFailed(call)
                  ELSE [call EXCEPT !.pc = "countComplete", !.total = Len(store)]
    /\ UNCHANGED <<reply, store, form, reqs, clock>>

\* const completeResponses = await Response.countDocuments({ form, status: 'complete' }),
\* then thirtyDaysAgo from new Date()
CountComplete ==
    /\ At("countComplete")
    /\ \E dbOk \in BOOLEAN :
       \E now \in ReadClock(clock) :
          /\ clock' = now
          /\ call' = IF ~dbOk THEN AnalyticsFailed(call)
                     ELSE [call EXCEPT !.pc = "overTime", !.now = now,
                                       !.complete = CompleteCount(store)]
    /\ UNCHANGED <<reply, store, form, reqs>>

\* const responsesOverTime = await Response.aggregate([...])
AggregateOverTime ==
    /\ At("overTime")
    /\ \E dbOk \in BOOLEAN :
          call' = IF ~dbOk THEN AnalyticsFailed(call)
                  ELSE [call EXCEPT !.pc = "avgTime", !.seen = store,
                                    !.overTime = responsesOverTime(store, call.now)]
    /\ UNCHANGED <<reply, store, form, reqs, clock>>

\* const avgCompletionTime = await Response.aggregate([...])
AggregateAvgTime ==
    /\ At("avgTime")
    /\ \E dbOk \in BOOLEAN :
          call' = IF ~dbOk THEN AnalyticsFailed(call)
                  ELSE [call EXCEPT !.pc = "devices", !.avg = avgCompletionTime(store)]
    /\ UNCHANGED <<reply, store, form, reqs, clock>>

\* const deviceStats = await Response.aggregate([...]); without responses
\* counted the answer follows, else aiService.generateInsights is called
AggregateDevices ==
    /\ At("devices")
    /\ \E dbOk \in BOOLEAN :
       \E deviceStats \in DeviceStatsOrders(store) :
          call' = IF ~dbOk THEN AnalyticsFailed(call)
                  ELSE LET c == [call EXCEPT !.device = deviceStats] IN
                       IF c.total > 0 THEN [c EXCEPT !.pc = "insightsFind"]
                       ELSE [c EXCEPT !.pc = "done",
                                      !.out = getResponseAnalytics(c, Return(Null))]
    /\ UNCHANGED <<reply, store, form, reqs, clock>>

\* generateInsights within the request, up to its first await's answer
AnalyticsInsightsFind ==
    /\ At("insightsFind")
    /\ \E queryOk \in BOOLEAN :
          LET responses == IF queryOk THEN Limit(store, InsightsLimit) ELSE <<>>
              asks == queryOk /\ responses # <<>>
              c == [call EXCEPT !.queryOk = queryOk, !.responses = responses,
                                !.prompt = InsightsSummary(queryOk, store)]
          IN  call' = IF asks THEN [c EXCEPT !.pc = "invoke"]
                      ELSE [c EXCEPT !.pc = "done",
                               !.out = getResponseAnalytics(c,
                                          generateInsights(queryOk, responses, reply))]
    /\ UNCHANGED <<reply, store, form, reqs, clock>>

\* the answer of chain.invoke within generateInsights, and res.json
AnalyticsInsightsInvoke ==
    /\ At("invoke")
    /\ call' = [call EXCEPT !.pc = "done",
                   !.out = getResponseAnalytics(call,
                              generateInsights(call.queryOk, call.responses, reply))]
    /\ UNCHANGED <<reply, store, form, reqs, clock>>

NextAnalytics ==
    \/ AnalyticsFindForm
    \/ CountTotal
    \/ CountComplete
    \/ AggregateOverTime
    \/ AggregateAvgTime
    \/ AggregateDevices
    \/ AnalyticsInsightsFind
    \/ AnalyticsInsightsInvoke
    \/ \E w \in Writers : CallCreate(w) \/ StoreResponse(w) \/ RemoveResponse(w)

SpecAnalytics == InitAnalytics /\ [][NextAnalytics]_vars

(***************************************************************************)
(* submitResponse, deleteResponse, updateForm and deleteForm.  A request   *)
(* runs from one await to the next; between two awaits of one request the  *)
(* steps of other requests may run.  form is the Form document of the id   *)
(* the requests name, Null when there is none (never created, or removed   *)
(* by deleteForm).  A submitResponse request holds                         *)
(*   pc        : "new", then "count" (before Response.countDocuments),     *)
(*               "create" (before Response.create), "analyze" (before      *)
(*               aiService.analyzeResponse resolves), "save" (before       *)
(*               formResponse.save() resolves), "done" (answered)          *)
(*   status    : the HTTP status answered, 0 before the answer             *)
(*   created   : whether its Response.create stored a record               *)
(*   known     : whether Form.findById found the form                      *)
(*   form      : the form document it found, which its checks read         *)
(*   loggedIn  : whether the request carries req.user                      *)
(*   counted   : the responseCount it read, -1 before it read one          *)
(*   checkedAt : the clock read by its expiration check, 0 before          *)
(*   analysis  : the aiAnalysis it got from analyzeResponse, Null before   *)
(* and a deleteResponse request holds pc ("new", "remove", "done"), status *)
(* and target, the _id of the record it found.  A stored record carries as *)
(* _id the number of the request that created it.  An updateForm request   *)
(* holds pc ("new", "update", "done"), status and wrote (whether its write *)
(* changed the form document that later Form.findById calls return); a     *)
(* deleteForm request holds pc ("new", "remove", "done") and status.       *)
(***************************************************************************)
MaxReqs == 2
MaxDeletes == 1
MaxUpdates == 1
MaxFormDeletes == 1

Requests == 1..MaxReqs

Deleters == (MaxReqs + 1)..(MaxReqs + MaxDeletes)

Updaters == (MaxReqs + MaxDeletes + 1)..(MaxReqs + MaxDeletes + MaxUpdates)

FormDeleters ==
    (MaxReqs + MaxDeletes + MaxUpdates + 1)..(MaxReqs + MaxDeletes + MaxUpdates + MaxFormDeletes)

NewRequest ==
    [op |-> "submitResponse", pc |-> "new", status |-> 0, created |-> FALSE,
     known |-> FALSE, form |-> Null, loggedIn |-> FALSE, counted |-> -1, checkedAt |-> 0,
     analysis |-> Null]

NewUpdate == [op |-> "updateForm", pc |-> "new", status |-> 0, wrote |-> FALSE]

NewFormDelete == [op |-> "deleteForm", pc |-> "new", status |-> 0]

NewDelete == [op |-> "deleteResponse", pc |-> "new", status |-> 0, target |-> 0]

Answered(req, status) == [req EXCEPT !.pc = "done", !.status = status]

\* the record Response.create stores (status by the schema's default)
SubmittedDoc(id) ==
    Ext(ResponseDoc(<<[elementId |-> "f1", value |-> Str("Ann")]>>, "complete",
                    [device |-> "mobile"]),
        "_id", id)

\* form.settings?.access?.maxResponses, falsy when unset or 0
HasMaxResponses(frm) == frm.settings.access.maxResponses # 0

\* form.settings?.enableAiAnalysis: undefined on every document of FormSchema,
\* which declares no such path
EnableAiAnalysis(frm) ==
    "enableAiAnalysis" \in DOMAIN frm.settings /\ frm.settings.enableAiAnalysis

CheckExpirationSkipped(req, frm, now) == [req EXCEPT !.pc = "create", !.checkedAt = now]

\* expirationDate && new Date() > new Date(expirationDate), then on to Response.create
CheckExpiration(req, frm, now) ==
    IF frm.settings.access.expirationDate # 0 /\ now > frm.settings.access.expirationDate
    THEN Answered([req EXCEPT !.checkedAt = now], 400)
    ELSE [req EXCEPT !.pc = "create", !.checkedAt = now]

\* const form = await Form.findById(formId), and the checks up to the next await
FindForm(r) ==
    /\ reqs[r].pc = "new"
    /\ \E dbOk, loggedIn \in BOOLEAN :
       \E now \in ReadClock(clock) :
          /\ clock' = now
          /\ reqs' = [reqs EXCEPT ![r] =
              IF ~dbOk THEN Answered(@, 500)
              ELSE IF form = Null THEN Answered([@ EXCEPT !.loggedIn = loggedIn], 404)
              ELSE LET req == [@ EXCEPT !.known = TRUE, !.form = form, !.loggedIn = loggedIn] IN
                   IF form.status # "published" THEN Answered(req, 400)
                   ELSE IF form.settings.access.requireLogin /\ ~loggedIn THEN Answered(req, 401)
                   ELSE IF HasMaxResponses(form) THEN [req EXCEPT !.pc = "count"]
                   ELSE CheckExpiration(req, form, now)]
    /\ UNCHANGED <<reply, store, form, call>>

\* const responseCount = await Response.countDocuments({ form: formId })
CountResponses(r) ==
    /\ reqs[r].pc = "count"
    /\ \E dbOk \in BOOLEAN :
       \E now \in ReadClock(clock) :
          /\ clock' = now
          /\ reqs' = [reqs EXCEPT ![r] =
              IF ~dbOk THEN Answered(@, 500)
              ELSE LET req == [@ EXCEPT !.counted = Len(store)] IN
                   IF req.counted >= req.form.settings.access.maxResponses
                   THEN Answered(req, 400)
                   ELSE CheckExpiration(req, req.form, now)]
    /\ UNCHANGED <<reply, store, form, call>>

\* if (form.settings?.enableAiAnalysis): the handler goes on to the await of
\* aiService.analyzeResponse, else to res.status(201).json({...})
AfterCreate(req, frm) ==
    IF EnableAiAnalysis(frm) THEN [req EXCEPT !.pc = "analyze"] ELSE Answered(req, 201)

\* const formResponse = await Response.create({...}): the record is stored
\* without aiAnalysis, or the create fails and the outer catch answers 500
InsertRecord(req, id, st, created) ==
    IF ~created
    THEN [req |-> Answered(req, 500), store |-> st]
    ELSE [req |-> AfterCreate([req EXCEPT !.created = TRUE], req.form),
          store |-> Append(st, SubmittedDoc(id))]

\* const aiAnalysis = await aiService.analyzeResponse(formResponse, form);
\* formResponse.aiAnalysis = aiAnalysis: analyzeResponse catches its own
\* failures, so the await always resolves; the store is as it was
AwaitAnalysis(req, st, rep) ==
    [req |-> [req EXCEPT !.pc = "save", !.analysis = analyzeResponse(rep).value],
     store |-> st]

\* the record of id with the analysis attached, where it is still stored
Attached(st, id, analysis) ==
    [i \in 1..Len(st) |->
        IF st[i]._id = id THEN Ext(st[i], "aiAnalysis", analysis) ELSE st[i]]

\* await formResponse.save(), the inner catch, and res.status(201).json({...}):
\* the save writes the analysis to the record if it is still stored and the
\* write succeeds; a failure (the record removed meanwhile, the database) is
\* logged only, and 201 is answered either way
SaveAnalysis(req, id, st, saved) ==
    [req |-> Answered(req, 201),
     store |-> IF saved THEN Attached(st, id, req.analysis) ELSE st]

\* submitResponse from Response.create to its answer, one await at a step.
\* No document of FormSchema carries settings.enableAiAnalysis, so a request
\* is answered at the step of its create.
CreateResponse(r) ==
    /\ reqs[r].pc \in {"create", "analyze", "save"}
    /\ \E ok \in BOOLEAN :
          LET after == IF reqs[r].pc = "create" THEN InsertRecord(reqs[r], r, store, ok)
                       ELSE IF reqs[r].pc = "analyze" THEN AwaitAnalysis(reqs[r], store, reply)
                       ELSE SaveAnalysis(reqs[r], r, store, ok)
          IN  /\ reqs' = [reqs EXCEPT ![r] = after.req]
              /\ store' = after.store
    /\ UNCHANGED <<reply, form, call, clock>>

Stored(id) == \E i \in 1..Len(store) : store[i]._id = id

\* const response = await Response.findById(req.params.id).populate('form', 'user'),
\* and the checks up to response.remove(); populate leaves response.form null
\* when the form is gone, and response.form.user then throws into the catch
DeleteFind(d) ==
    /\ reqs[d].pc = "new"
    /\ \E dbOk, isOwner \in BOOLEAN :
       \E id \in Requests :
          reqs' = [reqs EXCEPT ![d] =
              IF ~dbOk THEN Answered(@, 500)
              ELSE IF ~Stored(id) THEN Answered(@, 404)
              ELSE IF form = Null THEN Answered(@, 500)
              ELSE IF ~isOwner THEN Answered(@, 403)
              ELSE [@ EXCEPT !.pc = "remove", !.target = id]]
    /\ UNCHANGED <<reply, store, form, call, clock>>

\* await response.remove(); res.json({ message: 'Response removed' })
DeleteRemove(d) ==
    /\ reqs[d].pc = "remove"
    /\ \E removed \in BOOLEAN :
          IF ~removed
          THEN /\ reqs' = [reqs EXCEPT ![d] = Answered(@, 500)]
               /\ store' = store
          ELSE /\ store' = SelectSeq(store, LAMBDA doc : doc._id # reqs[d].target)
               /\ reqs' = [reqs EXCEPT ![d] = Answered(@, 200)]
    /\ UNCHANGED <<reply, form, call, clock>>

\* const form = await Form.findById(req.params.id), and the two checks
UpdateFind(u) ==
    /\ reqs[u].pc = "new"
    /\ \E dbOk, isOwner \in BOOLEAN :
          reqs' = [reqs EXCEPT ![u] =
              IF ~dbOk THEN Answered(@, 500)
              ELSE IF form = Null THEN Answered(@, 404)
              ELSE IF ~isOwner THEN Answered(@, 403)
              ELSE [@ EXCEPT !.pc = "update"]]
    /\ UNCHANGED <<reply, store, form, call, clock>>

\* the req.body of an updateForm: a status, or settings whose access is given
\* (the fields it leaves undefined are not written)
UpdateBodies ==
    { [status |-> "draft"], [status |-> "published"], [status |-> "retired"],
      [access |-> Access(FALSE, 2, 0)], [access |-> Access(FALSE, 0, 100)] }

\* runValidators: the status must be one of the schema's enum
ValidUpdate(body) ==
    "status" \in DOMAIN body => body.status \in {"draft", "published", "archived"}

\* the document after Form.findByIdAndUpdate(id, { ..., settings, status })
Updated(frm, body) ==
    [frm EXCEPT !.status = IF "status" \in DOMAIN body THEN body.status ELSE @,
                !.settings.access = IF "access" \in DOMAIN body THEN body.access ELSE @]

\* const updatedForm = await Form.findByIdAndUpdate(...); res.json(updatedForm):
\* when the form is gone by now nothing is written and null is answered
UpdateApply(u) ==
    /\ reqs[u].pc = "update"
    /\ \E dbOk \in BOOLEAN :
       \E body \in UpdateBodies :
          IF dbOk /\ ValidUpdate(body)
          THEN /\ form' = IF form = Null THEN Null ELSE Updated(form, body)
               /\ reqs' = [reqs EXCEPT ![u] = Answered([@ EXCEPT !.wrote = form # Null], 200)]
          ELSE /\ form' = form
               /\ reqs' = [reqs EXCEPT ![u] = Answered(@, 500)]
    /\ UNCHANGED <<reply, store, call, clock>>

\* deleteForm: const form = await Form.findById(req.params.id), and the two checks
DeleteFormFind(x) ==
    /\ reqs[x].pc = "new"
    /\ \E dbOk, isOwner \in BOOLEAN :
          reqs' = [reqs EXCEPT ![x] =
              IF ~dbOk THEN Answered(@, 500)
              ELSE IF form = Null THEN Answered(@, 404)
              ELSE IF ~isOwner THEN Answered(@, 403)
              ELSE [@ EXCEPT !.pc = "remove"]]
    /\ UNCHANGED <<reply, store, form, call, clock>>

\* await form.remove(); res.json({ message: 'Form removed' }): the form
\* document is gone, the responses stored for it stay
DeleteFormRemove(x) ==
    /\ reqs[x].pc = "remove"
    /\ \E removed \in BOOLEAN :
          IF ~removed
          THEN /\ reqs' = [reqs EXCEPT ![x] = Answered(@, 500)]
               /\ form' = form
          ELSE /\ form' = Null
               /\ reqs' = [reqs EXCEPT ![x] = Answered(@, 200)]
    /\ UNCHANGED <<reply, store, call, clock>>

SubmitForms ==
    { FormDoc("published", OpenAccess),
      FormDoc("published", Access(FALSE, 1, 0)),
      FormDoc("published", Access(FALSE, 2, 0)),
      FormDoc("published", Access(TRUE, 0, 0)),
      FormDoc("published", Access(FALSE, 1, 101)),
      FormDoc("published", Access(FALSE, 0, 100)),
      FormDoc("published", Access(FALSE, 0, 101)),
      FormDoc("draft", OpenAccess) }

InitSubmit ==
    /\ reply = [ok |-> FALSE]
    /\ store = <<>>
    /\ form \in SubmitForms \cup {Null}
    /\ reqs = [r \in Requests \cup Deleters \cup Updaters \cup FormDeleters |->
                  IF r \in Requests THEN NewRequest
                  ELSE IF r \in Deleters THEN NewDelete
                  ELSE IF r \in Updaters THEN NewUpdate ELSE NewFormDelete]
    /\ call = NoCall
    /\ clock = 101

Step(r) == FindForm(r) \/ CountResponses(r) \/ CreateResponse(r)

NextSubmit ==
    \/ \E r \in Requests : Step(r)
    \/ \E d \in Deleters : DeleteFind(d) \/ DeleteRemove(d)
    \/ \E u \in Updaters : UpdateFind(u) \/ UpdateApply(u)
    \/ \E x \in FormDeleters : DeleteFormFind(x) \/ DeleteFormRemove(x)

SpecSubmit == InitSubmit /\ [][NextSubmit]_vars

(***************************************************************************)
(* suggestValidations.  A label is the sequence of its characters.         *)
(***************************************************************************)
UpperCase == <<"A", "B", "C", "D", "E", "F", "G", "H", "I", "J", "K", "L", "M",
               "N", "O", "P", "Q", "R", "S", "T", "U", "V", "W", "X", "Y", "Z">>
LowerCase == <<"a", "b", "c", "d", "e", "f", "g", "h", "i", "j", "k", "l", "m",
               "n", "o", "p", "q", "r", "s", "t", "u", "v", "w", "x", "y", "z">>

toLowerCaseIdentity(label) == label

\* label.toLowerCase()
toLowerCase(label) ==
    [i \in 1..Len(label) |->
        IF \E k \in 1..Len(UpperCase) : UpperCase[k] = label[i]
        THEN LowerCase[CHOOSE k \in 1..Len(UpperCase) : UpperCase[k] = label[i]]
        ELSE label[i]]

\* text.includes(word)
includes(text, word) ==
    \E at \in 0..(Len(text) - Len(word)) : SubSeq(text, at + 1, at + Len(word)) = word

EmailNote == "Email format validation is automatically applied"
MinLengthNote == "Consider adding minimum length validation (2-3 characters)"
PhoneNote == "Consider adding phone number format validation"
CharLimitNote == "Consider adding character limits for better UX"
MinMaxNote == "Consider adding min/max value constraints"

\* evaluating the switch on element of a text element without a label throws a TypeError
RuleThrows(element) == element.type = "text" /\ "label" \notin DOMAIN element

\* the suggestions array that the switch on element.type fills
RuleNotes(element) ==
    IF element.type = "email" THEN <<EmailNote>>
    ELSE IF element.type = "text"
    THEN (IF includes(toLowerCase(element.label), <<"n", "a", "m", "e">>)
          THEN <<MinLengthNote>> ELSE <<>>)
         \o (IF includes(toLowerCase(element.label), <<"p", "h", "o", "n", "e">>)
             THEN <<PhoneNote>> ELSE <<>>)
    ELSE IF element.type = "textarea" THEN <<CharLimitNote>>
    ELSE IF element.type = "number" THEN <<MinMaxNote>>
    ELSE <<>>

\* { elementId: element.id, suggestions }
ValidationEntry(element) == [elementId |-> element.id, suggestions |-> RuleNotes(element)]

HasSuggestions(item) == Len(item.suggestions) > 0

\* elements.map(...) then filter(item => item.suggestions.length > 0); catch: return []
suggestValidations(elements) ==
    IF \E i \in 1..Len(elements) : RuleThrows(elements[i]) THEN <<>>
    ELSE SelectSeq([i \in 1..Len(elements) |-> ValidationEntry(elements[i])], HasSuggestions)

(***************************************************************************)
(* suggestValidations over sequences of up to MaxVal elements.             *)
(***************************************************************************)
MaxVal == 2

FullName == <<"F", "u", "l", "l", " ", "N", "a", "m", "e">>
UserNameUpper == <<"U", "S", "E", "R", "N", "A", "M", "E">>
PhoneMixed == <<"P", "h", "o", "N", "e", " ", "n", "o", ".">>
NameAndPhone == <<"n", "a", "m", "e", " ", "&", " ", "P", "H", "O", "N", "E">>
Welcome == <<"W", "e", "l", "c", "o", "m", "e">>
Enamel == <<"E", "n", "a", "m", "e", "l">>
NaMe == <<"N", "a", " ", "m", "e">>

ValElements ==
    { [id |-> "e1", type |-> "text", label |-> FullName],
      [id |-> "e2", type |-> "text", label |-> UserNameUpper],
      [id |-> "e3", type |-> "text", label |-> PhoneMixed],
      [id |-> "e4", type |-> "text", label |-> NameAndPhone],
      [id |-> "e5", type |-> "text", label |-> Welcome],
      [id |-> "e6", type |-> "text", label |-> Enamel],
      [id |-> "e7", type |-> "text", label |-> NaMe],
      [id |-> "e8", type |-> "text"],
      [id |-> "e9", type |-> "email", label |-> Welcome],
      [id |-> "e10", type |-> "textarea", label |-> FullName],
      [id |-> "e11", type |-> "number", label |-> PhoneMixed],
      [id |-> "e12", type |-> "heading", label |-> Welcome],
      [id |-> "e13", type |-> "select", label |-> NameAndPhone],
      [id |-> "e14", type |-> "heading"] }

InitVal ==
    /\ reply = [ok |-> FALSE]
    /\ store = <<>>
    /\ form \in [elements : SeqsUpTo(ValElements, MaxVal)]
    /\ reqs = <<>>
    /\ call = NoCall
    /\ clock = 101

SuggestValidations ==
    /\ call' = [op |-> "suggestValidations", out |-> Return(suggestValidations(form.elements))]
    /\ UNCHANGED <<reply, store, form, reqs, clock>>

NextVal == SuggestValidations

SpecVal == InitVal /\ [][NextVal]_vars

(***************************************************************************)
(* The contracts of the model's output (spec section 6), as the claims use *)
(* them.                                                                   *)
(***************************************************************************)
ElementTypes ==
    {"text", "textarea", "number", "email", "password", "select", "radio", "checkbox",
     "date", "time", "file", "heading", "paragraph", "divider", "rating", "signature"}

Sentiments == {"positive", "neutral", "negative"}

HasFormFields(v) == {"title", "description", "elements", "settings"} \subseteq DOMAIN v

MatchesFormContract(v) ==
    /\ HasFormFields(v)
    /\ \A i \in 1..Len(v.elements) :
          /\ {"type", "label"} \subseteq DOMAIN v.elements[i]
          /\ v.elements[i].type \in ElementTypes

HasAnalysisFields(v) == {"sentiment", "keywords", "summary", "flags"} \subseteq DOMAIN v

MatchesAnalysisContract(v) == HasAnalysisFields(v) /\ v.sentiment \in Sentiments

MatchesInsightContract(v) ==
    {"overallTrends", "recommendations", "patterns", "improvementSuggestions"} \subseteq DOMAIN v

\* the reply is a text that is exactly one JSON value
PlainJson(rep) == rep.ok /\ rep.text.syntax = "json" /\ ~rep.text.fenced

\* the reply is a JSON value wrapped in code-fence markers
FencedJson(rep) == rep.ok /\ rep.text.syntax = "json" /\ rep.text.fenced

\* the same reply without its fence markers
Bare(rep) == [rep EXCEPT !.text.fenced = FALSE]

Returned(op) == call.op = op /\ call.out.kind = "return"

(***************************************************************************)
(* C1: for every model output that is valid JSON matching the              *)
(* FormDefinition contract, every element of the FormDefinition            *)
(* generateForm returns has a non-empty identifier and no two elements     *)
(* share one.  The code keeps every supplied id and so returns duplicates. *)
(***************************************************************************)
C1_IdsNonEmptyAndDistinct ==
    (Returned("generateForm") /\ PlainJson(reply) /\ MatchesFormContract(reply.text.value)) =>
        LET els == call.out.value.elements IN
        /\ \A i \in 1..Len(els) : "id" \in DOMAIN els[i] /\ els[i].id # ""
        /\ \A i, j \in 1..Len(els) : i # j => els[i].id # els[j].id

(***************************************************************************)
(* C2: the ID-assignment step is idempotent: run again at any later clock  *)
(* on the sequence it produced it changes no identifier; and an element    *)
(* that arrives with an identifier (a non-empty string) keeps exactly it.  *)
(***************************************************************************)
C2_AssignIdsIdempotent ==
    /\ call.op = "assignIds" =>
          /\ Len(call.out) = Len(call.before)
          /\ \A i \in 1..Len(call.before) : call.out[i].id = call.before[i].id
    /\ Returned("generateForm") =>
          /\ Len(call.out.value.elements) = Len(ParsedElements(reply))
          /\ \A i \in 1..Len(ParsedElements(reply)) :
                HasId(ParsedElements(reply)[i]) =>
                    call.out.value.elements[i].id = ParsedElements(reply)[i].id

\* the step is run a second time, at a later clock reading, on a sequence
\* whose first identifier it generated and whose second was supplied
C2_Witness ==
    /\ call.op = "assignIds"
    /\ Len(call.before) = 2
    /\ call.before[1].id = "field_1_0"
    /\ call.before[2].id = "a"
    /\ call.times[1] = 2

(***************************************************************************)
(* C5: for the same malformed model output (not valid JSON, or JSON that   *)
(* lacks a field the contract requires), generateForm raises its           *)
(* generation-failed error and analyzeResponse returns exactly the fixed   *)
(* neutral AnalysisResult.  The code checks no field but `elements`.       *)
(***************************************************************************)
MalformedOutput(rep) ==
    /\ rep.ok
    /\ ~rep.text.fenced
    /\ \/ rep.text.syntax # "json"
       \/ ~HasFormFields(rep.text.value) /\ ~HasAnalysisFields(rep.text.value)

C5_MalformedOutputPolicy ==
    MalformedOutput(reply) =>
        /\ call.op = "generateForm" => call.out = GenerationFailed
        /\ call.op = "analyzeResponse" => call.out = Return(NeutralAnalysis)

(***************************************************************************)
(* C6: no value that violates its contract is returned as a success:       *)
(* generateForm returns only elements of an enumerated type,               *)
(* analyzeResponse only a full AnalysisResult with an enumerated           *)
(* sentiment, generateInsights only a full InsightResult.  The code        *)
(* returns whatever JSON.parse gives.                                      *)
(***************************************************************************)
C6_OnlyContractValuesReturned ==
    /\ Returned("generateForm") =>
          \A i \in 1..Len(call.out.value.elements) :
              call.out.value.elements[i].type \in ElementTypes
    /\ Returned("analyzeResponse") => MatchesAnalysisContract(call.out.value)
    /\ Returned("generateInsights") => MatchesInsightContract(call.out.value)

(***************************************************************************)
(* C7: a contract-conforming JSON object wrapped in code-fence markers is  *)
(* accepted: each operation returns what it returns for the bare JSON      *)
(* text.  The code hands the fenced text to JSON.parse as it is.           *)
(***************************************************************************)
C7_FencedJsonAccepted ==
    FencedJson(reply) =>
        /\ (call.op = "generateForm" /\ MatchesFormContract(reply.text.value)) =>
              \E times \in ClockReadings(Len(reply.text.value.elements), 1) :
                  call.out = generateForm(Bare(reply), times)
        /\ (call.op = "analyzeResponse" /\ MatchesAnalysisContract(reply.text.value)) =>
              call.out = Return(reply.text.value)
        /\ (call.op = "generateInsights" /\ call.pc = "done" /\ call.queryOk
                /\ call.responses # <<>> /\ MatchesInsightContract(reply.text.value)) =>
              call.out = Return(reply.text.value)

(***************************************************************************)
(* C3: with fewer than 10 stored responses (9 in particular) optimizeForm  *)
(* returns the fixed insufficient-data result: the 'Need more responses'   *)
(* message, no suggestion, no field counters; with 10 or more it returns   *)
(* the 'analysis completed' result with the per-element counters.  (The    *)
(* response query succeeded.)                                              *)
(***************************************************************************)
AnalysedIds ==
    LET responses == Limit(store, OptimizeLimit)
    IN  UNION { {responses[i].responses[j].elementId : j \in 1..Len(responses[i].responses)} :
                  i \in 1..Len(responses) }

C3_TenResponsesNeeded ==
    (call.op = "optimizeForm" /\ call.queryOk) =>
        IF Len(store) < 10
        THEN /\ call.out.kind = "return"
             /\ DOMAIN call.out.value = {"message", "suggestions"}
             /\ call.out.value.message = "Need more responses (at least 10) to provide optimization suggestions"
             /\ call.out.value.suggestions = <<>>
        ELSE /\ call.out.kind = "return"
             /\ DOMAIN call.out.value = {"message", "suggestions", "fieldAnalysis"}
             /\ call.out.value.message = "Form optimization analysis completed"
             /\ DOMAIN call.out.value.fieldAnalysis \subseteq AnalysedIds
             /\ \A id \in DOMAIN call.out.value.fieldAnalysis :
                   DOMAIN call.out.value.fieldAnalysis[id] = {"total", "filled", "errors"}

\* optimizeForm has answered on exactly 9 stored responses
C3_Witness ==
    /\ call.op = "optimizeForm"
    /\ call.queryOk
    /\ Len(store) = 9
    /\ call.out = Return(InsufficientData)

(***************************************************************************)
(* C4: in optimizeForm's analysis every elementId that appears in the      *)
(* analysed responses has counters with 0 <= filled <= total and           *)
(* total >= 1, so its fill rate is in [0,1], and it is listed in the       *)
(* suggestions if and only if its fill rate is strictly below 0.5 (5 of 10 *)
(* is not listed).  The code keeps no counters for an elementId that names *)
(* a property of Object.prototype, and never lists it.                     *)
(***************************************************************************)
Analysed == Returned("optimizeForm") /\ "fieldAnalysis" \in DOMAIN call.out.value

\* the suggestions that name fieldId
SuggestionsFor(fieldId) ==
    {i \in 1..Len(call.out.value.suggestions) :
        \E percent \in 0..100 : call.out.value.suggestions[i] = SuggestionText(fieldId, percent)}

\* the counters of id are in range and id is listed exactly when under one half
CountersInRangeAndFlagged(fa, id) ==
    /\ id \in DOMAIN fa
    /\ 0 <= fa[id].filled
    /\ fa[id].filled <= fa[id].total
    /\ fa[id].total >= 1
    /\ (SuggestionsFor(id) # {}) <=> (2 * fa[id].filled < fa[id].total)

C4_LowFillRateFlagged ==
    Analysed => \A id \in AnalysedIds : CountersInRangeAndFlagged(call.out.value.fieldAnalysis, id)

\* what the code does keep: the property for every elementId that is not
\* inherited from Object.prototype, each listed at most once
LowFillRateFlaggedOwnKeys ==
    Analysed =>
        LET fa == call.out.value.fieldAnalysis IN
        /\ DOMAIN fa = AnalysedIds \ ObjectPrototypeKeys
        /\ \A id \in DOMAIN fa :
              CountersInRangeAndFlagged(fa, id) /\ Cardinality(SuggestionsFor(id)) <= 1
        /\ Len(call.out.value.suggestions) =
              Cardinality({id \in DOMAIN fa : 2 * fa[id].filled < fa[id].total})

\* an element filled in exactly 5 of 10 responses is analysed and not listed,
\* while another element of the same analysis is listed
HalfFilledNotFlagged ==
    /\ Analysed
    /\ Len(store) = 10
    /\ "f1" \in DOMAIN call.out.value.fieldAnalysis
    /\ call.out.value.fieldAnalysis["f1"] = [total |-> 10, filled |-> 5, errors |-> 0]
    /\ SuggestionsFor("f1") = {}
    /\ SuggestionsFor("f2") # {}

(***************************************************************************)
(* C8: generateInsights never propagates a failure: when the response      *)
(* query, the model invocation or the parsing of the model output fails it *)
(* returns exactly the fixed fallback InsightResult, and                   *)
(* getResponseAnalytics then still answers 200 with the statistics it      *)
(* computed, the fallback as its aiInsights.                               *)
(***************************************************************************)
AnalyticsAnswered ==
    call.op = "getResponseAnalytics" /\ call.pc = "done" /\ call.out.status = 200

\* the model round trip fails: no answer, or an answer JSON.parse rejects
ReplyFails == ~reply.ok \/ reply.text.syntax # "json" \/ reply.text.fenced

\* the request called generateInsights, and its query or its model round trip failed
InsightsFailed ==
    /\ call.total > 0
    /\ ~call.queryOk \/ (call.responses # <<>> /\ ReplyFails)

C8_InsightsNeverPropagate ==
    /\ (call.op = "getResponseAnalytics" /\ call.pc = "done") =>
          call.out.status \in {200, 403, 404, 500}
    /\ (call.op = "getResponseAnalytics" /\ call.pc = "done" /\ InsightsFailed) =>
          /\ call.out.status = 200
          /\ call.out.body.aiInsights =
                [overallTrends |-> "Unable to generate insights at this time",
                 recommendations |-> <<>>, patterns |-> <<>>, improvementSuggestions |-> <<>>]
          /\ call.out.body.totalResponses = call.total
          /\ call.out.body.completeResponses = call.complete
          /\ call.out.body.responsesOverTime = call.overTime
          /\ call.out.body.deviceStats = call.device

\* the analytics of a form with responses were answered although the model's
\* output for the insights was not JSON
C8_Witness ==
    /\ AnalyticsAnswered
    /\ call.queryOk
    /\ reply.ok
    /\ reply.text.syntax = "prose"
    /\ call.total = 2
    /\ Len(call.responses) = 2
    /\ call.out.body.aiInsights = FallbackInsights

(***************************************************************************)
(* C10: the completion rate reported for a form is complete / total, a     *)
(* value in [0,1], and 0 when the form has no responses, both in the       *)
(* answer of getResponseAnalytics and in the summary generateInsights      *)
(* builds.  getResponseAnalytics reports a percentage instead, taken from  *)
(* two separate counts.                                                    *)
(***************************************************************************)
CompleteIn(docs) == Cardinality({i \in 1..Len(docs) : docs[i].status = "complete"})

\* the rational r equals n / d
RatIs(r, n, d) == r.den > 0 /\ r.num * d = n * r.den

\* generateInsights built its summary
Summarised == "prompt" \in DOMAIN call /\ call.prompt.built

C10_RateIsFraction ==
    /\ AnalyticsAnswered =>
          /\ 0 <= call.out.body.completionRate.num
          /\ call.out.body.completionRate.num <= call.out.body.completionRate.den
          /\ call.quiet =>
                IF Len(store) = 0 THEN call.out.body.completionRate.num = 0
                ELSE RatIs(call.out.body.completionRate, CompleteIn(store), Len(store))
    /\ Summarised =>
          RatIs(call.prompt.summary.completionRate,
                CompleteIn(call.responses), Len(call.responses))

\* what the code keeps: the rate answered is 100 * completeResponses /
\* totalResponses over the two counts the request read, 0 when the first
\* count is 0; when no response was written during the request it is the
\* percentage of the stored responses, at most 100.  The summary holds the
\* fraction over the responses generateInsights loaded.
RateAsComputed ==
    /\ AnalyticsAnswered =>
          /\ IF call.total = 0 THEN call.out.body.completionRate.num = 0
             ELSE RatIs(call.out.body.completionRate, 100 * call.complete, call.total)
          /\ call.quiet =>
                /\ call.total = Len(store)
                /\ call.complete = CompleteIn(store)
                /\ call.out.body.completionRate.num <= 100 * call.out.body.completionRate.den
    /\ Summarised =>
          /\ call.prompt.summary.totalResponses = Len(call.responses)
          /\ call.prompt.summary.completionRate.num <= call.prompt.summary.completionRate.den
          /\ RatIs(call.prompt.summary.completionRate,
                   CompleteIn(call.responses), Len(call.responses))

\* a response was stored between the two counts of the request: one response
\* counted in all, two counted complete, and a rate of 200
RateAboveHundred ==
    /\ AnalyticsAnswered
    /\ call.total = 1
    /\ call.complete = 2
    /\ call.out.body.completionRate = [num |-> 200, den |-> 1]

(***************************************************************************)
(* What submitResponse keeps from its create on: a request that stored its *)
(* record is answered 201 and nothing else, a record is stored once, and a *)
(* stored record belongs to a request that created it.  Lines 55-65 run an *)
(* analysis only for forms whose settings carry enableAiAnalysis, which no *)
(* document of FormSchema does: no reachable state has a request at the    *)
(* awaits of lines 58 and 60, so a failing analysis is not among the cases *)
(* this covers.                                                            *)
(***************************************************************************)
StoredMeansSuccess ==
    \A r \in Requests :
        /\ Cardinality({i \in 1..Len(store) : store[i]._id = r}) <= 1
        /\ reqs[r].created =>
              /\ reqs[r].pc \in {"analyze", "save", "done"}
              /\ reqs[r].status \in {0, 201}
              /\ reqs[r].pc = "done" <=> reqs[r].status = 201
        /\ Stored(r) => reqs[r].created

\* no request waits for an analysis: every request that stored its record is
\* answered in the same step
NoAnalysisAwaited ==
    \A r \in Requests :
        /\ reqs[r].pc \notin {"analyze", "save"}
        /\ reqs[r].analysis = Null
        /\ reqs[r].known => ~EnableAiAnalysis(reqs[r].form)

\* a submission stored its record and was answered 201; the record carries no
\* analysis
StoredAndAnswered ==
    \E r \in Requests :
        /\ reqs[r].created
        /\ reqs[r].pc = "done"
        /\ reqs[r].status = 201
        /\ \E i \in 1..Len(store) : store[i]._id = r /\ "aiAnalysis" \notin DOMAIN store[i]

(***************************************************************************)
(* C11: responsesOverTime of getResponseAnalytics has one entry for each   *)
(* UTC calendar day on which a response was created within the trailing   *)
(* 30 days, with the number of those responses as its count; the entries   *)
(* are in ascending date order, a day without such a response has no       *)
(* entry, and a response created 31 days ago or earlier is in no entry.    *)
(***************************************************************************)
\* the responses the aggregate read that were created within the 30 days before the call
InWindow ==
    {i \in 1..Len(call.seen) :
        call.now - call.seen[i].createdAt <= WindowDays * HalfDaysPerDay}

\* the responses that the entry at position n counts
CountedBy(n) ==
    {i \in InWindow :
        YearMonthDay(call.seen[i].createdAt) = call.out.body.responsesOverTime[n]._id}

\* a is an earlier calendar date than b
EarlierDate(a, b) ==
    a.year * 10000 + a.month * 100 + a.day < b.year * 10000 + b.month * 100 + b.day

C11_OneBucketPerDayInWindow ==
    AnalyticsAnswered =>
        LET buckets == call.out.body.responsesOverTime IN
        /\ call.quiet => call.seen = store
        /\ \A i \in InWindow : \E n \in 1..Len(buckets) : i \in CountedBy(n)
        /\ \A n \in 1..Len(buckets) :
              /\ buckets[n].count = Cardinality(CountedBy(n))
              /\ buckets[n].count >= 1
        /\ \A m, n \in 1..Len(buckets) : m < n => EarlierDate(buckets[m]._id, buckets[n]._id)
        /\ \A i \in 1..Len(call.seen) :
              call.now - call.seen[i].createdAt >= (WindowDays + 1) * HalfDaysPerDay
                 => \A n \in 1..Len(buckets) : i \notin CountedBy(n)

\* the collection holds a response created exactly 31 days before the call,
\* one of December and two of the same day of January: two entries, in date
\* order, the second with count 2, and nothing for the oldest response
C11_Witness ==
    /\ AnalyticsAnswered
    /\ Len(call.seen) = 4
    /\ \E i \in 1..Len(call.seen) :
          call.now - call.seen[i].createdAt = (WindowDays + 1) * HalfDaysPerDay
    /\ Len(call.out.body.responsesOverTime) = 2
    /\ call.out.body.responsesOverTime[1]._id.year < call.out.body.responsesOverTime[2]._id.year
    /\ call.out.body.responsesOverTime[1].count = 1
    /\ call.out.body.responsesOverTime[2].count = 2

(***************************************************************************)
(* C12: for elements that carry a label, suggestValidations returns, in    *)
(* input order, one entry for each element to which the rule table gives   *)
(* a note and none for the others: email the format note; text the         *)
(* minimum-length note when the label contains "name" in any letter case   *)
(* and the phone note when it contains "phone" (both when both);           *)
(* textarea the character-limit note; number the min/max note; any other   *)
(* type nothing.  When the evaluation fails the result is the empty list.  *)
(***************************************************************************)
ValidationsReturned == call.op = "suggestValidations" /\ call.out.kind = "return"

\* the labels of the elements used that contain "name", and "phone", in some letter case
LabelsWithName == {FullName, UserNameUpper, NameAndPhone, Enamel}
LabelsWithPhone == {PhoneMixed, NameAndPhone}

\* the notes of the rule table for an element
TableNotes(element) ==
    CASE element.type = "email" -> <<EmailNote>>
      [] element.type = "textarea" -> <<CharLimitNote>>
      [] element.type = "number" -> <<MinMaxNote>>
      [] element.type = "text" /\ element.label \in LabelsWithName \ LabelsWithPhone -> <<MinLengthNote>>
      [] element.type = "text" /\ element.label \in LabelsWithPhone \ LabelsWithName -> <<PhoneNote>>
      [] element.type = "text" /\ element.label \in LabelsWithName \cap LabelsWithPhone ->
            <<MinLengthNote, PhoneNote>>
      [] OTHER -> <<>>

AllLabelled == \A i \in 1..Len(form.elements) : "label" \in DOMAIN form.elements[i]

\* the positions of the elements with a note, in input order
Noted == {i \in 1..Len(form.elements) : TableNotes(form.elements[i]) # <<>>}

NthNoted(n) == CHOOSE i \in Noted : Cardinality({j \in Noted : j < i}) = n - 1

C12_RuleTableInInputOrder ==
    /\ (ValidationsReturned /\ AllLabelled) =>
          /\ Len(call.out.value) = Cardinality(Noted)
          /\ \A n \in 1..Len(call.out.value) :
                /\ call.out.value[n].elementId = form.elements[NthNoted(n)].id
                /\ call.out.value[n].suggestions = TableNotes(form.elements[NthNoted(n)])
    /\ (/\ ValidationsReturned
        /\ \E i \in 1..Len(form.elements) :
              form.elements[i].type = "text" /\ "label" \notin DOMAIN form.elements[i])
          => call.out.value = <<>>

\* a heading followed by the text element labelled "Full Name": one entry,
\* for the text element, with the minimum-length note
C12_Witness ==
    /\ ValidationsReturned
    /\ Len(form.elements) = 2
    /\ form.elements[1] = [id |-> "e12", type |-> "heading", label |-> Welcome]
    /\ form.elements[2] = [id |-> "e1", type |-> "text", label |-> FullName]
    /\ call.out.value = <<[elementId |-> "e1", suggestions |-> <<MinLengthNote>>]>>

(***************************************************************************)
(* C13: the average completion time of a form is the mean of               *)
(* metadata.timeSpent over the responses that supply it, and 0 when none   *)
(* does, both as averageCompletionTime of getResponseAnalytics and as      *)
(* averageTime of the summary that generateInsights builds; a response     *)
(* without timeSpent does not lower either.                                *)
(***************************************************************************)
\* the positions among the first n stored responses that supply timeSpent
Timed(docs) == {i \in 1..Len(docs) : "timeSpent" \in DOMAIN docs[i].metadata}

RECURSIVE TotalTime(_, _)
TotalTime(docs, S) ==
    IF S = {} THEN 0
    ELSE LET i == CHOOSE j \in S : TRUE
         IN  docs[i].metadata.timeSpent + TotalTime(docs, S \ {i})

\* r is the mean of timeSpent over the responses of docs that supply it, or 0
IsMeanOfTimed(r, docs) ==
    IF Timed(docs) = {} THEN r.num = 0
    ELSE RatIs(r, TotalTime(docs, Timed(docs)), Cardinality(Timed(docs)))

C13_MeanOverSuppliedTimes ==
    /\ (AnalyticsAnswered /\ call.quiet) =>
          IsMeanOfTimed(call.out.body.averageCompletionTime, store)
    /\ Summarised => IsMeanOfTimed(call.prompt.summary.averageTime, call.responses)

\* what the code keeps: the analytics average is the mean over the responses
\* that supply timeSpent, the summary's is the sum over those divided by the
\* number of all loaded responses
AverageTimeAsComputed ==
    /\ (AnalyticsAnswered /\ call.quiet) =>
          IsMeanOfTimed(call.out.body.averageCompletionTime, store)
    /\ Summarised =>
          RatIs(call.prompt.summary.averageTime,
                TotalTime(call.responses, Timed(call.responses)), Len(call.responses))

(***************************************************************************)
(* C14: in optimizeForm's counters, total of an elementId is the number of *)
(* analysed responses that contain it and filled the number of those whose *)
(* value is present and non-empty: an absent value, "", [] and {} are      *)
(* unfilled; a non-empty string, array or object and any number or boolean *)
(* (0 and false too) are filled.                                           *)
(***************************************************************************)
\* present and non-empty, as the claim defines it
PresentAndNonEmpty(v) ==
    CASE v.t = "undefined" -> FALSE
      [] v.t = "null" -> FALSE
      [] v.t = "string" -> v.s # ""
      [] v.t = "array" -> v.len > 0
      [] v.t = "object" -> v.size > 0
      [] v.t = "number" -> TRUE
      [] v.t = "boolean" -> TRUE

\* the analysed responses that contain id
Containing(id) ==
    {i \in 1..Len(Limit(store, OptimizeLimit)) :
        \E j \in 1..Len(store[i].responses) : store[i].responses[j].elementId = id}

\* those of them that hold a present and non-empty value for id
ContainingFilled(id) ==
    {i \in Containing(id) :
        \E j \in 1..Len(store[i].responses) :
            /\ store[i].responses[j].elementId = id
            /\ PresentAndNonEmpty(store[i].responses[j].value)}

C14_FilledMeansPresentAndNonEmpty ==
    Analysed =>
        \A id \in AnalysedIds :
            /\ id \in DOMAIN call.out.value.fieldAnalysis
            /\ call.out.value.fieldAnalysis[id].total = Cardinality(Containing(id))
            /\ call.out.value.fieldAnalysis[id].filled = Cardinality(ContainingFilled(id))

\* what the code keeps: for an elementId with counters, total is the number of
\* answers given under it (two in one response count twice) and filled the
\* number of those whose value is truthy: [] and {} are filled, 0 and false are not
CountersAsComputed ==
    Analysed =>
        \A id \in DOMAIN call.out.value.fieldAnalysis :
            LET given == {v \in Visits(Limit(store, OptimizeLimit)) :
                             store[v[1]].responses[v[2]].elementId = id}
                value(v) == store[v[1]].responses[v[2]].value
            IN  /\ call.out.value.fieldAnalysis[id].total = Cardinality(given)
                /\ call.out.value.fieldAnalysis[id].filled =
                      Cardinality({v \in given :
                          /\ value(v).t \notin {"undefined", "null"}
                          /\ value(v) \notin {Str(""), Num(0), Bool(FALSE)}})

(***************************************************************************)
(* C15: for a form whose settings set maxResponses to N, the number of     *)
(* stored responses never exceeds N after any sequence of submitResponse   *)
(* calls, whatever the interleaving of the count checks and the record     *)
(* creations of concurrent submissions.  (The form is as it was: no        *)
(* updateForm has written to it.)                                          *)
(***************************************************************************)
FormUpdated == \E u \in Updaters : reqs[u].wrote

C15_NeverMoreThanMaxResponses ==
    (form # Null /\ HasMaxResponses(form) /\ ~FormUpdated) =>
        Len(store) <= form.settings.access.maxResponses

\* what the code keeps: a request creates its record only after it has read a
\* count below the cap of the form it found, and the records stored beyond
\* the cap are those of requests that read their count before another one's
\* record was created
CapCheckedAtCountTime ==
    /\ \A r \in Requests :
          (reqs[r].created /\ HasMaxResponses(reqs[r].form)) =>
             /\ reqs[r].counted >= 0
             /\ reqs[r].counted < reqs[r].form.settings.access.maxResponses
    /\ (form # Null /\ HasMaxResponses(form) /\ ~FormUpdated) =>
          Len(store) <= form.settings.access.maxResponses + Cardinality(Requests) - 1

(***************************************************************************)
(* C16: submitResponse creates a record only when all its admission checks *)
(* passed on the form it found: the form was found, it is published, the   *)
(* request is logged in if the form requires login, the count read was     *)
(* below the cap if the form has one, and the expiration date had not      *)
(* passed when it was checked.  A submission answered 404, 400 or 401 has  *)
(* stored nothing and waits for no analysis, so the stored responses are   *)
(* records of admitted submissions only.  This holds also when updateForm  *)
(* or deleteForm changes or removes the form while submissions run.        *)
(***************************************************************************)
Admitted(r) ==
    /\ reqs[r].known
    /\ reqs[r].form.status = "published"
    /\ reqs[r].form.settings.access.requireLogin => reqs[r].loggedIn
    /\ HasMaxResponses(reqs[r].form) =>
          /\ reqs[r].counted >= 0
          /\ reqs[r].counted < reqs[r].form.settings.access.maxResponses
    /\ reqs[r].checkedAt # 0
    /\ reqs[r].form.settings.access.expirationDate # 0 =>
          reqs[r].checkedAt <= reqs[r].form.settings.access.expirationDate

C16_OnlyAdmittedSubmissionsStored ==
    /\ \A r \in Requests :
          /\ reqs[r].created => Admitted(r)
          /\ reqs[r].status \in {400, 401, 404} => ~reqs[r].created /\ reqs[r].pc = "done"
    /\ \A i \in 1..Len(store) :
          store[i]._id \in Requests /\ reqs[store[i]._id].created /\ Admitted(store[i]._id)
    /\ Len(store) <= Cardinality({r \in Requests : reqs[r].created})

\* one submission was admitted and stored; the next read the count 1 at a cap
\* of 1 and was answered 400: the store holds the one record
C16_Witness ==
    /\ form # Null
    /\ form.settings.access.maxResponses = 1
    /\ ~FormUpdated
    /\ Len(store) = 1
    /\ \E r, q \in Requests :
          /\ reqs[r].created /\ reqs[r].status = 201 /\ store[1]._id = r
          /\ reqs[q].counted = 1 /\ reqs[q].status = 400 /\ ~reqs[q].created

\* a submission that passed the expiration check at the expiration date and
\* one that made the check after it: the first is stored, the second answered 400
ExpiryCheckedAtRequestTime ==
    /\ form # Null
    /\ form.settings.access.expirationDate = 101
    /\ ~FormUpdated
    /\ \E r, q \in Requests :
          /\ reqs[r].created /\ reqs[r].checkedAt = 101
          /\ reqs[q].checkedAt = 102 /\ reqs[q].status = 400 /\ ~reqs[q].created

\* a submission was stored, deleteForm then removed the form, and the next
\* submission found no form and was answered 404: the record of the first
\* stays stored
DeletedFormRejected ==
    /\ form = Null
    /\ \E x \in FormDeleters : reqs[x].status = 200
    /\ \E r, q \in Requests :
          /\ reqs[r].created /\ reqs[r].status = 201
          /\ ~reqs[q].known /\ reqs[q].status = 404 /\ ~reqs[q].created
    /\ Len(store) = 1

\* a submission found the form and counted below its cap, deleteForm removed
\* the form, and the submission then stored its record for the removed form
StoredAfterFormRemoved ==
    /\ form = Null
    /\ \E x \in FormDeleters : reqs[x].status = 200
    /\ \E r \in Requests : reqs[r].created /\ Stored(r)
    /\ ~\E q \in Requests : reqs[q].status = 404

\* a submission to the open published form was stored, updateForm then set
\* the status to draft, and the next submission was answered 400
DraftAfterUpdateRejected ==
    \E r, q \in Requests :
        /\ reqs[r].created /\ reqs[r].status = 201
        /\ reqs[r].form = FormDoc("published", OpenAccess)
        /\ reqs[q].known /\ reqs[q].form.status = "draft"
        /\ reqs[q].form.settings.access = OpenAccess
        /\ reqs[q].status = 400 /\ ~reqs[q].created
        /\ Len(store) = 1

\* a submission was stored at a cap of 1, updateForm raised the cap to 2, and
\* the next submission counted 1 and was stored too
CapRaisedByUpdate ==
    \E r, q \in Requests :
        /\ reqs[r].created /\ reqs[r].form.settings.access.maxResponses = 1
        /\ reqs[q].created /\ reqs[q].form.settings.access.maxResponses = 2
        /\ reqs[q].counted = 1
        /\ Len(store) = 2

====
